---- MODULE Spec2Model ----
(***************************************************************************)
(* HackSeek: the relational schema of the initialization script (tables,   *)
(* constraints, foreign-key policies, triggers and views) as a state       *)
(* machine over a PostgreSQL store accessed by concurrent transactions,    *)
(* and the pages, components and API client of the Next.js frontend.       *)
(***************************************************************************)
EXTENDS Integers, Sequences, FiniteSets, TLC

\* ------------------------------------------------------------------ bounds
\* The wall clock runs over 0..MaxTime.
MaxTime == 2
\* uuid_generate_v4() is drawn MaxRows times at most; the admin row has id 0.
MaxRows == 5
\* The rows the chat specification stores at most.
MaxChatRows == 3

Conns == {"c1", "c2"}

\* ------------------------------------------------------------ SQL values
\* A nullable column holds NULL or Some(v).
NULL == <<>>
Some(v) == <<v>>
IsNull(x) == x = NULL
Val(x) == x[1]

\* x > t and x = v as a WHERE clause reads them: a comparison with NULL is
\* unknown, and a row is kept only when the predicate is true.  The view
\* predicates use AND, OR and IS NULL only (no NOT), so "is true" composes.
SqlGt(x, t) == ~IsNull(x) /\ Val(x) > t
SqlEq(x, y) == ~IsNull(x) /\ ~IsNull(y) /\ Val(x) = Val(y)

AdminEmail == "admin@hackseek.dev"

VARIABLES
    now,      \* the wall clock
    db,       \* the committed tables
    staged,   \* the tables as written by the one transaction holding write locks
    tx,       \* per connection: its transaction
    last,     \* per connection: the last statement it ran and how it ended
    nextId,   \* the next generated primary key
    detail,   \* pages/hackathons/[id].tsx: the loader and the page it renders
    card,     \* HackathonCard: its hackathon's deadline, the clock, the badge
    listing,  \* HackathonsPage: its React state and its requests in flight
    handled,  \* handleApiResponse: a call's arguments and how it ended
    retry,    \* retryWithBackoff: a call's loop, fn invocations and timer
    request,  \* apiRequest: a call's timer, fetch, body and how it ended
    calendar, \* CalendarPage: the date whose month it displays
    health    \* HealthPage: its React state and its checks in flight

\* The state of the database and the state of the frontend.
schemaVars == <<now, db, staged, tx, last, nextId>>
frontendVars ==
    <<detail, card, listing, handled, retry, request, calendar, health>>
vars == <<schemaVars, frontendVars>>
\* What the steps of one frontend component leave alone.
notDetail == <<schemaVars, card, listing, handled, retry, request, calendar, health>>
notCard == <<schemaVars, detail, listing, handled, retry, request, calendar, health>>
notListing == <<schemaVars, detail, card, handled, retry, request, calendar, health>>
notHandled == <<schemaVars, detail, card, listing, retry, request, calendar, health>>
notRetry == <<schemaVars, detail, card, listing, handled, request, calendar, health>>
notRequest == <<schemaVars, detail, card, listing, handled, retry, calendar, health>>
notCalendar ==
    <<schemaVars, detail, card, listing, handled, retry, request, health>>
notHealth ==
    <<schemaVars, detail, card, listing, handled, retry, request, calendar>>

\* ------------------------------------------------------ statement results
Ok(d) == [db |-> d, err |-> "none"]
Rejected(d, e) == [db |-> d, err |-> e]

Ids(rows) == {r.id : r \in rows}

\* ----------------------------------------------------------------- users
\* INSERT INTO users (email, first_name): email is UNIQUE NOT NULL,
\* created_at/updated_at default to CURRENT_TIMESTAMP.
InsertUser(d, ts, id, email, first_name) ==
    IF \E u \in d.users : u.email = email
    THEN Rejected(d, "unique_violation")
    ELSE Ok([d EXCEPT !.users = @ \cup
            {[id |-> id, email |-> email, first_name |-> first_name,
              updated_at |-> ts]}])

\* ------------------------------------------------- foreign-key policies
\* ON DELETE CASCADE: the referencing rows go with the parent.
OnDeleteCascade(rows, col, key) == {r \in rows : r[col] # key}
\* ON DELETE SET NULL: the referencing rows stay, the reference is nulled.
OnDeleteSetNull(rows, col, key) ==
    {IF r[col] = Some(key) THEN [r EXCEPT ![col] = NULL] ELSE r : r \in rows}

\* user_favorites.user_id REFERENCES users(id) ON DELETE CASCADE
FavoritesOnUserDelete(rows, uid) == OnDeleteCascade(rows, "user_id", uid)
\* Mutant: the search logs declared ON DELETE CASCADE like the favourites.
SearchLogsCascade(rows, uid) == {r \in rows : r.user_id # Some(uid)}
\* search_logs.user_id REFERENCES users(id) ON DELETE SET NULL
SearchLogsOnUserDelete(rows, uid) == OnDeleteSetNull(rows, "user_id", uid)
\* Mutant: the chat sessions declared ON DELETE CASCADE like the favourites.
ChatSessionsCascade(rows, uid) == {r \in rows : r.user_id # Some(uid)}
\* chat_sessions.user_id REFERENCES users(id) ON DELETE SET NULL
ChatSessionsOnUserDelete(rows, uid) == OnDeleteSetNull(rows, "user_id", uid)

\* DELETE FROM users WHERE id = uid, with the referential actions of the
\* three tables that reference users.  chat_messages references only
\* chat_sessions, which this statement does not delete.
DeleteUser(d, uid) ==
    IF uid \notin Ids(d.users) THEN Ok(d)
    ELSE Ok([d EXCEPT
            !.users = {u \in @ : u.id # uid},
            !.user_favorites = FavoritesOnUserDelete(@, uid),
            !.search_logs = SearchLogsOnUserDelete(@, uid),
            !.chat_sessions = ChatSessionsOnUserDelete(@, uid)])

\* -------------------------------------------------------- user_favorites
\* CONSTRAINT unique_user_favorite UNIQUE (user_id, hackathon_id); both
\* columns are NOT NULL, so every pair takes part in the constraint.
\* Mutant: the table declared without unique_user_favorite.
FavoriteConflictDropped(rows, u, h) == FALSE
FavoriteConflict(rows, u, h) ==
    \E f \in rows : f.user_id = u /\ f.hackathon_id = h

\* Mutant: INSERT ... ON CONFLICT DO NOTHING, which the script does not say.
InsertFavoriteDoNothing(d, ts, id, u, h) ==
    IF u \notin Ids(d.users) \/ h \notin Ids(d.hackathons)
    THEN Rejected(d, "foreign_key_violation")
    ELSE IF \E f \in d.user_favorites : f.user_id = u /\ f.hackathon_id = h
    THEN Ok(d)
    ELSE Ok([d EXCEPT !.user_favorites = @ \cup
            {[id |-> id, user_id |-> u, hackathon_id |-> h, created_at |-> ts]}])
\* INSERT INTO user_favorites (user_id, hackathon_id)
InsertFavorite(d, ts, id, u, h) ==
    IF u \notin Ids(d.users) \/ h \notin Ids(d.hackathons)
    THEN Rejected(d, "foreign_key_violation")
    ELSE IF FavoriteConflict(d.user_favorites, u, h)
    THEN Rejected(d, "unique_violation")
    ELSE Ok([d EXCEPT !.user_favorites = @ \cup
            {[id |-> id, user_id |-> u, hackathon_id |-> h, created_at |-> ts]}])

\* DELETE FROM user_favorites WHERE user_id = u AND hackathon_id = h
DeleteFavorite(d, u, h) ==
    Ok([d EXCEPT !.user_favorites =
            {f \in @ : ~(f.user_id = u /\ f.hackathon_id = h)}])

\* ----------------------------------------------------------- search_logs
\* INSERT INTO search_logs (user_id, search_query, clicked_hackathon_id):
\* both references are nullable; a non-null one must name an existing row.
InsertSearchLog(d, ts, id, u, query, clicked) ==
    IF (~IsNull(u) /\ Val(u) \notin Ids(d.users))
       \/ (~IsNull(clicked) /\ Val(clicked) \notin Ids(d.hackathons))
    THEN Rejected(d, "foreign_key_violation")
    ELSE Ok([d EXCEPT !.search_logs = @ \cup
            {[id |-> id, user_id |-> u, search_query |-> query,
              clicked_hackathon_id |-> clicked, created_at |-> ts]}])

\* --------------------------------------------------------- chat_sessions
\* INSERT INTO chat_sessions (user_id, session_token): session_token is
\* UNIQUE NOT NULL, is_active defaults to TRUE, last_activity_at to
\* CURRENT_TIMESTAMP.
InsertChatSession(d, ts, id, u, token) ==
    IF ~IsNull(u) /\ Val(u) \notin Ids(d.users)
    THEN Rejected(d, "foreign_key_violation")
    ELSE IF \E s \in d.chat_sessions : s.session_token = token
    THEN Rejected(d, "unique_violation")
    ELSE Ok([d EXCEPT !.chat_sessions = @ \cup
            {[id |-> id, user_id |-> u, session_token |-> token,
              is_active |-> TRUE, last_activity_at |-> ts]}])

\* UPDATE chat_sessions SET is_active = active WHERE id = sid (no trigger is
\* declared on chat_sessions).
UpdateChatSession(d, sid, active) ==
    Ok([d EXCEPT !.chat_sessions =
            {IF s.id = sid THEN [s EXCEPT !.is_active = active] ELSE s : s \in @}])

\* chat_messages.session_id REFERENCES chat_sessions(id) ON DELETE CASCADE
MessagesOnSessionDelete(rows, sid) == OnDeleteCascade(rows, "session_id", sid)

\* DELETE FROM chat_sessions WHERE id = sid
DeleteChatSession(d, sid) ==
    Ok([d EXCEPT
        !.chat_sessions = {s \in @ : s.id # sid},
        !.chat_messages = MessagesOnSessionDelete(@, sid)])

\* --------------------------------------------------------- chat_messages
MessageTypes == {"user", "assistant", "system"}

\* Mutant: the trigger's UPDATE left out of the inserting statement.
chat_session_activity_not_updated(sessions, new, ts) == sessions
\* update_chat_session_activity(): UPDATE chat_sessions
\* SET last_activity_at = CURRENT_TIMESTAMP WHERE id = NEW.session_id
update_chat_session_activity(sessions, new, ts) ==
    {IF s.id = new.session_id THEN [s EXCEPT !.last_activity_at = ts] ELSE s
        : s \in sessions}

\* INSERT INTO chat_messages (session_id, message_type[, created_at]):
\* session_id must name a chat_sessions row, message_type passes its CHECK,
\* created_at is the supplied value or else CURRENT_TIMESTAMP; then the
\* AFTER INSERT trigger runs for the new row.
InsertChatMessage(d, ts, id, sid, mtype, created) ==
    IF mtype \notin MessageTypes
    THEN Rejected(d, "check_violation")
    ELSE IF sid \notin Ids(d.chat_sessions)
    THEN Rejected(d, "foreign_key_violation")
    ELSE LET new == [id |-> id, session_id |-> sid, message_type |-> mtype,
                     created_at |-> IF IsNull(created) THEN ts ELSE Val(created)]
         IN  Ok([d EXCEPT
                 !.chat_messages = @ \cup {new},
                 !.chat_sessions = update_chat_session_activity(@, new, ts)])

\* --------------------------------------------------------- scraping_jobs
JobStatuses == {"pending", "running", "completed", "failed", "cancelled"}

\* CHECK (status IN (...)) on a column without NOT NULL: a NULL passes.
StatusCheck(j) == IsNull(j.status) \/ Val(j.status) \in JobStatuses

\* The column defaults of CREATE TABLE scraping_jobs.
ScrapingJobDefaults(ts) ==
    [platform |-> "p", status |-> Some("pending"), created_at |-> ts]

\* ------------------------------------------------------------ hackathons
DifficultyLevels == {"Beginner", "Intermediate", "Advanced", "All"}

\* CHECK (difficulty_level IN (...)): a NULL passes a CHECK.
DifficultyCheck(h) ==
    IsNull(h.difficulty_level) \/ Val(h.difficulty_level) \in DifficultyLevels

\* CONSTRAINT unique_source_hackathon UNIQUE (source_platform, source_id):
\* both columns are nullable, and a unique constraint compares two keys as
\* equal only when neither holds a NULL.
\* Mutant: the table declared without unique_source_hackathon.
SourceConflictDropped(rows, h) == FALSE
SourceConflict(rows, h) ==
    \E g \in rows :
        /\ g.id # h.id
        /\ SqlEq(g.source_platform, h.source_platform)
        /\ SqlEq(g.source_id, h.source_id)

\* update_updated_at_column(): NEW.updated_at = CURRENT_TIMESTAMP
update_updated_at_column(new, ts) == [new EXCEPT !.updated_at = ts]

\* The column defaults of CREATE TABLE hackathons.
HackathonDefaults(ts) ==
    [title |-> "t", source_platform |-> NULL, source_id |-> NULL,
     is_active |-> Some(TRUE), start_date |-> NULL, end_date |-> NULL,
     registration_deadline |-> NULL, prize_money |-> NULL,
     difficulty_level |-> NULL, updated_at |-> ts]

\* A row with the columns of set written over base.
Assign(base, set) ==
    [c \in DOMAIN base |-> IF c \in DOMAIN set THEN set[c] ELSE base[c]]

\* INSERT INTO hackathons (<DOMAIN set>) VALUES (...).  No trigger fires on
\* INSERT, so a supplied updated_at is stored as given.
InsertHackathon(d, ts, id, set) ==
    LET new == Assign([id |-> id] @@ HackathonDefaults(ts), set)
    IN  IF ~DifficultyCheck(new)
        THEN Rejected(d, "check_violation")
        ELSE IF SourceConflict(d.hackathons, new)
        THEN Rejected(d, "unique_violation")
        ELSE Ok([d EXCEPT !.hackathons = @ \cup {new}])

\* UPDATE hackathons SET <DOMAIN set> WHERE id = hid: the BEFORE UPDATE
\* trigger rewrites NEW.updated_at, then the constraints are checked.
UpdateHackathon(d, ts, hid, set) ==
    IF hid \notin Ids(d.hackathons) THEN Ok(d)
    ELSE LET old == CHOOSE h \in d.hackathons : h.id = hid
             new == update_updated_at_column(Assign(old, set), ts)
         IN  IF ~DifficultyCheck(new)
             THEN Rejected(d, "check_violation")
             ELSE IF SourceConflict(d.hackathons, new)
             THEN Rejected(d, "unique_violation")
             ELSE Ok([d EXCEPT !.hackathons = (@ \ {old}) \cup {new}])

\* UPDATE users SET first_name = ..[, updated_at = ..] WHERE id = uid, with
\* the same BEFORE UPDATE trigger.
UpdateUser(d, ts, uid, set) ==
    IF uid \notin Ids(d.users) THEN Ok(d)
    ELSE LET old == CHOOSE u \in d.users : u.id = uid
             new == update_updated_at_column(Assign(old, set), ts)
         IN  Ok([d EXCEPT !.users = (@ \ {old}) \cup {new}])

\* INSERT INTO scraping_jobs (<DOMAIN set>) VALUES (...): a column left out
\* takes its default, a column given as NULL stores NULL.
InsertScrapingJob(d, ts, id, set) ==
    LET new == Assign([id |-> id] @@ ScrapingJobDefaults(ts), set)
    IN  IF ~StatusCheck(new)
        THEN Rejected(d, "check_violation")
        ELSE Ok([d EXCEPT !.scraping_jobs = @ \cup {new}])

\* UPDATE scraping_jobs SET <DOMAIN set> WHERE id = jid (no trigger is
\* declared on scraping_jobs).
UpdateScrapingJob(d, jid, set) ==
    IF jid \notin Ids(d.scraping_jobs) THEN Ok(d)
    ELSE LET old == CHOOSE j \in d.scraping_jobs : j.id = jid
             new == Assign(old, set)
         IN  IF ~StatusCheck(new)
             THEN Rejected(d, "check_violation")
             ELSE Ok([d EXCEPT !.scraping_jobs = (@ \ {old}) \cup {new}])

\* ----------------------------------------------------------------- views
\* CREATE VIEW active_hackathons: the WHERE clause at CURRENT_TIMESTAMP = t.
active_hackathons(d, t) ==
    {h \in d.hackathons :
        /\ SqlEq(h.is_active, Some(TRUE))
        /\ (IsNull(h.end_date) \/ SqlGt(h.end_date, t))}

\* Mutant: upcoming_hackathons without its start_date condition.
upcoming_without_start(d, t) ==
    {h \in d.hackathons :
        /\ SqlEq(h.is_active, Some(TRUE))
        /\ (IsNull(h.registration_deadline) \/ SqlGt(h.registration_deadline, t))}

\* CREATE VIEW upcoming_hackathons
upcoming_hackathons(d, t) ==
    {h \in d.hackathons :
        /\ SqlEq(h.is_active, Some(TRUE))
        /\ SqlGt(h.start_date, t)
        /\ (IsNull(h.registration_deadline) \/ SqlGt(h.registration_deadline, t))}

\* Mutant: featured_hackathons without its is_active condition.
featured_without_active(d, t) ==
    {h \in d.hackathons :
        /\ SqlGt(h.prize_money, 0)
        /\ (IsNull(h.end_date) \/ SqlGt(h.end_date, t))}

\* CREATE VIEW featured_hackathons
featured_hackathons(d, t) ==
    {h \in d.hackathons :
        /\ SqlEq(h.is_active, Some(TRUE))
        /\ SqlGt(h.prize_money, 0)
        /\ (IsNull(h.end_date) \/ SqlGt(h.end_date, t))}

\* ORDER BY start_date ASC: ascending, and NULLs after every value (the
\* PostgreSQL default for ASC).
StartDateAsc(a, b) ==
    \/ IsNull(b.start_date)
    \/ ~IsNull(a.start_date) /\ Val(a.start_date) <= Val(b.start_date)

\* Mutant: ORDER BY prize_money DESC alone.
featured_order_by_prize(a, b) == Val(a.prize_money) >= Val(b.prize_money)
\* ORDER BY prize_money DESC, start_date ASC: a may stand before b.  The
\* WHERE clause has left no NULL prize_money to place.
featured_order(a, b) ==
    \/ Val(a.prize_money) > Val(b.prize_money)
    \/ Val(a.prize_money) = Val(b.prize_money) /\ StartDateAsc(a, b)

\* SELECT * FROM featured_hackathons at CURRENT_TIMESTAMP = t: the row
\* sequences the view may return, every row of the WHERE clause once, in an
\* order the sort keys allow (rows with equal keys come in either order).
featured_listings(d, t) ==
    LET rows == featured_hackathons(d, t)
    IN  {l \in [1..Cardinality(rows) -> rows] :
            /\ \A r \in rows : \E i \in DOMAIN l : l[i] = r
            /\ \A i, j \in DOMAIN l : i < j => featured_order(l[i], l[j])}

\* ---------------------------------------------------------- transactions
\* Each connection runs one transaction at a time (READ COMMITTED, the
\* PostgreSQL default).  CURRENT_TIMESTAMP is the start time of the current
\* transaction, for the statement and for every trigger and default it
\* fires.  A writing statement keeps its row and index locks until the
\* transaction ends, and a statement that meets them waits; the model lets
\* one transaction at a time hold written rows (staged), which yields the
\* same committed tables.  A statement that raises an error aborts its
\* transaction.  A transaction here runs at most one writing statement.
Idle == [st |-> "idle", time |-> 0]
NoStage == [by |-> "none"]
NoStatement == [op |-> "none", err |-> "none"]

\* The state after the initialization script: empty tables but for the
\* default admin user (INSERT ... ON CONFLICT (email) DO NOTHING).
InitDb ==
    [users |-> {[id |-> 0, email |-> AdminEmail, first_name |-> "Admin",
                 updated_at |-> 0]},
     hackathons |-> {},
     user_favorites |-> {},
     search_logs |-> {},
     chat_sessions |-> {},
     chat_messages |-> {},
     scraping_jobs |-> {}]

\* The database after the initialization script, no connection in a
\* transaction.
InitSchema ==
    /\ now = 0
    /\ db = InitDb
    /\ staged = NoStage
    /\ tx = [c \in Conns |-> Idle]
    /\ last = NoStatement
    /\ nextId = 1

\* No page requested.
NoPage == [phase |-> "none"]

\* No card mounted.
NoCard == [phase |-> "none"]

\* SearchFiltersType: the keys that are set, with their values.
EmptyFilters == [k \in {} |-> NULL]

\* setTimeout(..., 500) of the search debounce effect.
DebounceMs == 500

\* HackathonsPage as first rendered without initialData and initialFilters:
\* the useState initial values, no request issued, and the timer the
\* debounce effect sets after the first render.  issued lists the calls
\* of fetchHackathons in order, inflight holds those awaiting fetch or
\* response.json(), settled maps those that ended to how they ended.
\* clock is the time since the page was mounted in ms; a timer holds the
\* filters and searchQuery of the render whose effect set it; effects
\* counts the runs of the effect and is the id of the timer its cleanup
\* clears.  edited (when searchQuery last changed), burst (the values
\* searchQuery took one after another while a timer was pending) and cleared
\* (the number of calls issued before a Clear All that no user input has
\* followed) are history fields.
InitListing ==
    [hackathons |-> <<>>,
     loading |-> FALSE,
     error |-> NULL,
     filters |-> EmptyFilters,
     pagination |-> [total |-> 0, page |-> 1, pages |-> 1, size |-> 12],
     url |-> NULL,
     issued |-> <<>>,
     inflight |-> {},
     settled |-> EmptyFilters,
     searchQuery |-> "",
     clock |-> 0,
     effects |-> 1,
     timers |-> {[id |-> 1, due |-> DebounceMs, filters |-> EmptyFilters,
                  searchQuery |-> ""]},
     edited |-> 0,
     burst |-> <<>>,
     cleared |-> NULL]

\* The calendar page and the health page not mounted.
NoCalendar == [phase |-> "none"]
NoHealth == [phase |-> "none"]

\* No call of the API client made.
NoCall == [phase |-> "none"]

Init ==
    /\ InitSchema
    /\ detail = NoPage
    /\ card = NoCard
    /\ listing = InitListing
    /\ calendar = NoCalendar
    /\ health = NoHealth
    /\ handled = NoCall
    /\ retry = NoCall
    /\ request = NoCall

\* The wall clock advances.
Tick ==
    /\ now < MaxTime
    /\ now' = now + 1
    /\ UNCHANGED <<db, staged, tx, last, nextId>>
    /\ UNCHANGED frontendVars

\* BEGIN: the transaction's CURRENT_TIMESTAMP is fixed here.
Begin(c) ==
    /\ tx[c].st = "idle"
    /\ tx' = [tx EXCEPT ![c] = [st |-> "open", time |-> now]]
    /\ UNCHANGED <<now, db, staged, last, nextId>>
    /\ UNCHANGED frontendVars

\* COMMIT: the transaction's writes become the committed tables.
Commit(c) ==
    /\ tx[c].st \in {"open", "written"}
    /\ tx' = [tx EXCEPT ![c] = Idle]
    /\ IF tx[c].st = "written"
       THEN db' = staged.db /\ staged' = NoStage
       ELSE UNCHANGED <<db, staged>>
    /\ UNCHANGED <<now, last, nextId>>
    /\ UNCHANGED frontendVars

\* ROLLBACK: the transaction's writes are discarded.
Rollback(c) ==
    /\ tx[c].st \in {"open", "written"}
    /\ tx' = [tx EXCEPT ![c] = Idle]
    /\ staged' = IF tx[c].st = "written" THEN NoStage ELSE staged
    /\ UNCHANGED <<now, db, last, nextId>>
    /\ UNCHANGED frontendVars

\* Connection c may run a writing statement now.
CanWrite(c) == tx[c].st = "open" /\ staged = NoStage

\* The end of a statement of c with result r: its writes are staged, or its
\* error aborts the transaction; fresh says the statement stored a row
\* under the generated id.
Finish(c, op, r, fresh) ==
    /\ last' = [op |-> op, err |-> r.err]
    /\ IF r.err = "none"
       THEN /\ staged' = [by |-> c, db |-> r.db]
            /\ tx' = [tx EXCEPT ![c].st = "written"]
            /\ nextId' = IF fresh THEN nextId + 1 ELSE nextId
       ELSE /\ tx' = [tx EXCEPT ![c] = Idle]
            /\ UNCHANGED <<staged, nextId>>
    /\ UNCHANGED <<now, db>>
    /\ UNCHANGED frontendVars

HasId == nextId <= MaxRows

CreateUser(c, email) ==
    /\ CanWrite(c) /\ HasId
    /\ Finish(c, "CreateUser",
              InsertUser(db, tx[c].time, nextId, email, "n0"), TRUE)

ChangeUser(c, uid, set) ==
    /\ CanWrite(c)
    /\ Finish(c, "ChangeUser",
              UpdateUser(db, tx[c].time, uid, set), FALSE)

RemoveUser(c, uid) ==
    /\ CanWrite(c)
    /\ Finish(c, "RemoveUser", DeleteUser(db, uid), FALSE)

AddHackathon(c, set) ==
    /\ CanWrite(c) /\ HasId
    /\ Finish(c, "AddHackathon",
              InsertHackathon(db, tx[c].time, nextId, set), TRUE)

ChangeHackathon(c, hid, set) ==
    /\ CanWrite(c)
    /\ Finish(c, "ChangeHackathon",
              UpdateHackathon(db, tx[c].time, hid, set), FALSE)

AddFavorite(c, u, h) ==
    /\ CanWrite(c) /\ HasId
    /\ Finish(c, "AddFavorite",
              InsertFavorite(db, tx[c].time, nextId, u, h), TRUE)

RemoveFavorite(c, u, h) ==
    /\ CanWrite(c)
    /\ Finish(c, "RemoveFavorite", DeleteFavorite(db, u, h), FALSE)

LogSearch(c, u, clicked) ==
    /\ CanWrite(c) /\ HasId
    /\ Finish(c, "LogSearch",
              InsertSearchLog(db, tx[c].time, nextId, u, "q", clicked), TRUE)

CreateChatSession(c, u, token) ==
    /\ CanWrite(c) /\ HasId
    /\ Finish(c, "CreateChatSession",
              InsertChatSession(db, tx[c].time, nextId, u, token), TRUE)

SetChatSessionActive(c, sid, active) ==
    /\ CanWrite(c)
    /\ Finish(c, "SetChatSessionActive",
              UpdateChatSession(db, sid, active), FALSE)

RemoveChatSession(c, sid) ==
    /\ CanWrite(c)
    /\ Finish(c, "RemoveChatSession", DeleteChatSession(db, sid), FALSE)

AppendChatMessage(c, sid, mtype, created) ==
    /\ CanWrite(c) /\ HasId
    /\ Finish(c, "AppendChatMessage",
              InsertChatMessage(db, tx[c].time, nextId, sid, mtype, created), TRUE)

AddScrapingJob(c, set) ==
    /\ CanWrite(c) /\ HasId
    /\ Finish(c, "AddScrapingJob",
              InsertScrapingJob(db, tx[c].time, nextId, set), TRUE)

ChangeScrapingJob(c, jid, set) ==
    /\ CanWrite(c)
    /\ Finish(c, "ChangeScrapingJob", UpdateScrapingJob(db, jid, set), FALSE)

\* ------------------------------------------------------------ input sets
Emails == {"a@hackseek.dev"}
Tokens == {"tok1"}
\* The ids a statement can name: the rows of the table and one id that no
\* row has (every id without a row in the table fails the same way).
IdArgs(rows) == Ids(rows) \cup {nextId}
\* The same for a nullable reference.
RefArgs(rows) == {NULL} \cup {Some(i) : i \in IdArgs(rows)}
\* INSERT INTO hackathons (title): every other column takes its default.
PlainHackathon == [title |-> "t"]

\* ---------------------------------- favourites, search logs, user deletion
NextAccounts ==
    \/ \E c \in Conns : Begin(c)
    \/ \E c \in Conns : Commit(c)
    \/ \E c \in Conns : Rollback(c)
    \/ \E c \in Conns, email \in Emails : CreateUser(c, email)
    \/ \E c \in Conns : AddHackathon(c, PlainHackathon)
    \/ \E c \in Conns, u \in IdArgs(db.users), h \in IdArgs(db.hackathons) :
          AddFavorite(c, u, h)
    \/ \E c \in Conns, u \in IdArgs(db.users), h \in IdArgs(db.hackathons) :
          RemoveFavorite(c, u, h)
    \/ \E c \in Conns, u \in RefArgs(db.users) : LogSearch(c, u, NULL)
    \/ \E c \in Conns, u \in IdArgs(db.users) : RemoveUser(c, u)

SpecAccounts == Init /\ [][NextAccounts]_vars

\* ------------------------------------------- chat sessions and messages
\* A message_type that passes the CHECK and one that does not.
MessageTypeArgs == {"user", "tool"}

NextChat ==
    \/ Tick
    \/ \E c \in Conns : Begin(c)
    \/ \E c \in Conns : Commit(c)
    \/ \E c \in Conns : Rollback(c)
    \/ \E c \in Conns, u \in RefArgs(db.users), t \in Tokens :
          nextId <= MaxChatRows /\ CreateChatSession(c, u, t)
    \/ \E c \in Conns, sid \in IdArgs(db.chat_sessions), a \in BOOLEAN :
          SetChatSessionActive(c, sid, a)
    \/ \E c \in Conns, sid \in IdArgs(db.chat_sessions), m \in MessageTypeArgs :
          nextId <= MaxChatRows /\ AppendChatMessage(c, sid, m, NULL)
    \/ \E c \in Conns, sid \in IdArgs(db.chat_sessions) : RemoveChatSession(c, sid)
    \/ \E c \in Conns, u \in IdArgs(db.users) : RemoveUser(c, u)

SpecChat == Init /\ [][NextChat]_vars

\* ------------------------------------------------------------- ingestion
\* The rows the ingestion specification stores at most.
MaxIngestRows == 3

\* INSERT INTO hackathons (title, source_platform, source_id): the scraped
\* record's source, either column possibly NULL.
SourcedHackathons ==
    [title : {"t", "u"},
     source_platform : {NULL, Some("Devpost")},
     source_id : {NULL, Some("s1")}]

\* UPDATE hackathons SET ...: a title change and a change of the source.
SourceUpdates ==
    {[title |-> "u"],
     [source_platform |-> Some("Devpost"), source_id |-> Some("s1")]}

NextIngest ==
    \/ \E c \in Conns : Begin(c)
    \/ \E c \in Conns : Commit(c)
    \/ \E c \in Conns : Rollback(c)
    \/ \E c \in Conns, set \in SourcedHackathons :
          nextId <= MaxIngestRows /\ AddHackathon(c, set)
    \/ \E c \in Conns, hid \in IdArgs(db.hackathons), set \in SourceUpdates :
          ChangeHackathon(c, hid, set)

SpecIngest == Init /\ [][NextIngest]_vars

\* ------------------------------------------------------------ row updates
\* The rows the update specification stores at most.
MaxTouchRows == 1

\* UPDATE hackathons SET ...: a title change, one that also supplies its own
\* updated_at, and a deactivation.
HackathonUpdates ==
    {[title |-> "u"], [title |-> "u", updated_at |-> 0],
     [is_active |-> Some(FALSE)]}

\* UPDATE users SET ...: a name change, and one supplying its own updated_at.
UserUpdates == {[first_name |-> "n1"], [first_name |-> "n1", updated_at |-> 0]}

NextTouch ==
    \/ Tick
    \/ \E c \in Conns : Begin(c)
    \/ \E c \in Conns : Commit(c)
    \/ \E c \in Conns : Rollback(c)
    \/ \E c \in Conns : nextId <= MaxTouchRows /\ AddHackathon(c, PlainHackathon)
    \/ \E c \in Conns, hid \in IdArgs(db.hackathons), set \in HackathonUpdates :
          ChangeHackathon(c, hid, set)
    \/ \E c \in Conns, uid \in IdArgs(db.users), set \in UserUpdates :
          ChangeUser(c, uid, set)

SpecTouch == Init /\ [][NextTouch]_vars

\* ----------------------------------------------------------------- views
\* The rows the view specification stores at most.
MaxViewRows == 1

Dates == {NULL, Some(1), Some(2)}
Prizes == {NULL, Some(0), Some(5000)}
\* The instants a reading transaction's CURRENT_TIMESTAMP can be.
Times == 0..MaxTime

\* INSERT INTO hackathons (title, is_active, start_date, end_date,
\* registration_deadline, prize_money)
ListedHackathons ==
    [title : {"t"},
     is_active : {Some(TRUE), Some(FALSE), NULL},
     start_date : Dates,
     end_date : Dates,
     registration_deadline : Dates,
     prize_money : Prizes]

\* UPDATE hackathons SET is_active = ...: the soft deactivation and its undo.
ActiveUpdates == {[is_active |-> Some(FALSE)], [is_active |-> Some(TRUE)]}

NextViews ==
    \/ \E c \in Conns : Begin(c)
    \/ \E c \in Conns : Commit(c)
    \/ \E c \in Conns : Rollback(c)
    \/ \E c \in Conns, set \in ListedHackathons :
          nextId <= MaxViewRows /\ AddHackathon(c, set)
    \/ \E c \in Conns, hid \in IdArgs(db.hackathons), set \in ActiveUpdates :
          ChangeHackathon(c, hid, set)

SpecViews == Init /\ [][NextViews]_vars

\* ------------------------------------------------------ the featured view
\* The rows the featured specification stores at most.
MaxFeaturedRows == 3

\* INSERT INTO hackathons (title, is_active, start_date, end_date,
\* prize_money): open-ended active rows with a prize, over every start
\* date, a row the view leaves out for its prize (0) and one it leaves out
\* from instant 1 on for its end_date.
FeaturedCandidates ==
    [title : {"t"}, is_active : {Some(TRUE)}, start_date : Dates,
     end_date : {NULL}, prize_money : {Some(5000)}]
    \cup [title : {"t"}, is_active : {Some(TRUE)}, start_date : {Some(1)},
          end_date : {NULL}, prize_money : {Some(0), Some(1000)}]
    \cup [title : {"t"}, is_active : {Some(TRUE)}, start_date : {Some(1)},
          end_date : {Some(1)}, prize_money : {Some(5000)}]

\* UPDATE hackathons SET prize_money = NULL
PrizeUpdates == {[prize_money |-> NULL]}

NextFeatured ==
    \/ \E c \in Conns : Begin(c)
    \/ \E c \in Conns : Commit(c)
    \/ \E c \in Conns : Rollback(c)
    \/ \E c \in Conns, set \in FeaturedCandidates :
          nextId <= MaxFeaturedRows /\ AddHackathon(c, set)
    \/ \E c \in Conns, hid \in IdArgs(db.hackathons), set \in PrizeUpdates :
          ChangeHackathon(c, hid, set)

SpecFeatured == Init /\ [][NextFeatured]_vars

\* ----------------------------------------------------- enumerated columns
\* The rows the enumerated-column specification stores at most.
MaxEnumRows == 3

\* A status that passes the CHECK as a member of the list, one outside the
\* list, and NULL.
StatusArgs == {Some("running"), Some("done"), NULL}
\* INSERT INTO scraping_jobs (platform[, status])
JobInserts == {[platform |-> "p"]} \cup [platform : {"p"}, status : StatusArgs]
\* UPDATE scraping_jobs SET status = ...
JobUpdates == [status : StatusArgs]

\* A difficulty_level of the list, one outside it, and NULL.
DifficultyArgs == {Some("Beginner"), Some("Expert"), NULL}
\* INSERT INTO hackathons (title, difficulty_level) and
\* UPDATE hackathons SET difficulty_level = ...
DifficultyInserts == [title : {"t"}, difficulty_level : DifficultyArgs]
DifficultyUpdates == [difficulty_level : DifficultyArgs]

NextEnums ==
    \/ \E c \in Conns : Begin(c)
    \/ \E c \in Conns : Commit(c)
    \/ \E c \in Conns : Rollback(c)
    \/ \E c \in Conns, set \in JobInserts :
          nextId <= MaxEnumRows /\ AddScrapingJob(c, set)
    \/ \E c \in Conns, jid \in IdArgs(db.scraping_jobs), set \in JobUpdates :
          ChangeScrapingJob(c, jid, set)
    \/ \E c \in Conns, set \in DifficultyInserts :
          nextId <= MaxEnumRows /\ AddHackathon(c, set)
    \/ \E c \in Conns, hid \in IdArgs(db.hackathons), set \in DifficultyUpdates :
          ChangeHackathon(c, hid, set)
    \/ \E c \in Conns, t \in Tokens :
          nextId <= MaxEnumRows /\ CreateChatSession(c, NULL, t)
    \/ \E c \in Conns, sid \in IdArgs(db.chat_sessions), m \in MessageTypeArgs :
          nextId <= MaxEnumRows /\ AppendChatMessage(c, sid, m, NULL)

SpecEnums == Init /\ [][NextEnums]_vars

\* ------------------------------------------- pages/hackathons/[id].tsx
\* The hackathon ids a detail page is requested for: 1..MaxDetailId.
MaxDetailId == 5
DetailIds == 1..MaxDetailId

\* The HTTP statuses the API answers GET /api/hackathons/{id} with.
Statuses == {200, 201, 204, 400, 401, 403, 404, 429, 500, 502, 503}
\* Response.ok: the status is in the range 200-299.
ResponseOk(status) == status >= 200 /\ status <= 299
\* What response.json() finds in the body: a hackathon object, the JSON
\* value null, or text that is not JSON (the promise rejects).
Bodies == {"hackathon", "null", "malformed"}

NotFoundText == "Hackathon not found"
FailedText == "Failed to load hackathon details"

\* HackathonDetailPage: the heading of the error branch (error || !hackathon
\* shows error || 'Hackathon not found'), or else the hackathon's page.
Heading(props) ==
    IF "error" \in DOMAIN props THEN props.error
    ELSE IF "hackathon" \notin DOMAIN props \/ IsNull(props.hackathon)
    THEN NotFoundText
    ELSE "hackathon page"

\* The page rendered from the props the loader returned.
Rendered(id, api, props) ==
    [phase |-> "rendered", id |-> id, api |-> api, props |-> props,
     heading |-> Heading(props)]

\* getServerSideProps starts: fetch is called for context.params.id.
LoadDetail(id) ==
    /\ detail.phase \in {"none", "rendered"}
    /\ detail' = [phase |-> "fetching", id |-> id]
    /\ UNCHANGED notDetail

\* fetch rejects (the request itself fails): the catch block.
DetailFetchRejects ==
    /\ detail.phase = "fetching"
    /\ detail' = Rendered(detail.id, [kind |-> "rejected"], [error |-> FailedText])
    /\ UNCHANGED notDetail

\* fetch resolves with a response: the !response.ok branch, or on to
\* response.json().
DetailFetchResolves(status) ==
    /\ detail.phase = "fetching"
    /\ detail' =
          IF ~ResponseOk(status)
          THEN Rendered(detail.id, [kind |-> "response", status |-> status],
                        [error |-> NotFoundText])
          ELSE [phase |-> "parsing", id |-> detail.id, status |-> status]
    /\ UNCHANGED notDetail

\* response.json() settles: the parsed value becomes props.hackathon, or the
\* rejection is caught.
DetailJsonSettles(body) ==
    /\ detail.phase = "parsing"
    /\ LET api == [kind |-> "response", status |-> detail.status, body |-> body]
       IN  detail' = Rendered(detail.id, api,
               CASE body = "malformed" -> [error |-> FailedText]
                 [] body = "null" -> [hackathon |-> NULL]
                 [] OTHER -> [hackathon |-> Some(detail.id)])
    /\ UNCHANGED notDetail

NextDetail ==
    \/ \E id \in DetailIds : LoadDetail(id)
    \/ DetailFetchRejects
    \/ \E status \in Statuses : DetailFetchResolves(status)
    \/ \E body \in Bodies : DetailJsonSettles(body)

SpecDetail == Init /\ [][NextDetail]_vars

\* --------------------------------- components/hackathons: HackathonCard
\* 1000 * 3600 * 24: the milliseconds of a day.
MsPerDay == 86400000
\* diffDays <= 7
SoonDays == 7
\* The instants of the card specification lie within MaxCardDays days.
MaxCardDays == 9

\* The instants (ms) around each whole number of days: the day boundary,
\* one millisecond before it and one after it.
CardInstants ==
    {d * MsPerDay + e : d \in 0..MaxCardDays, e \in {-1, 0, 1}} \ {-1}
\* The instants at which a card is rendered.
RenderInstants == {t \in CardInstants : t <= MsPerDay + 1}

\* hackathon.registration_deadline: left out, the empty string, a string
\* that is no date, or the ISO string of an instant.
DeadlineStrings ==
    {NULL, Some([text |-> ""]), Some([text |-> "soon"])}
        \cup {Some([iso |-> t]) : t \in CardInstants}

\* !hackathon.registration_deadline: undefined and '' are falsy.
Falsy(str) == IsNull(str) \/ Val(str) = [text |-> ""]

\* new Date(str).getTime(): the instant, or NaN (here NULL) for a string
\* that is no date.
GetTime(str) == IF "iso" \in DOMAIN Val(str) THEN Some(Val(str).iso) ELSE NULL

\* a / b as an exact quotient (every quotient here compares with the
\* integers as its 64-bit float does: the numerator is an integer below
\* 2^53 and the bounds are whole days).
Quotient(a, b) == [num |-> a, den |-> b]
\* q <= n and q > n for a quotient with a positive denominator.
QuotientLeq(q, n) == q.num <= n * q.den
QuotientGt(q, n) == q.num > n * q.den

\* Mutant: the difference counted in whole days (Math.floor).
isDeadlineSoonWholeDays(registration_deadline, clock) ==
    /\ ~Falsy(registration_deadline)
    /\ ~IsNull(GetTime(registration_deadline))
    /\ LET diffDays == (Val(GetTime(registration_deadline)) - clock) \div MsPerDay
       IN  diffDays <= SoonDays /\ diffDays > 0
\* isDeadlineSoon(), with new Date() = clock.  A comparison with NaN is
\* false.
isDeadlineSoon(registration_deadline, clock) ==
    /\ ~Falsy(registration_deadline)
    /\ ~IsNull(GetTime(registration_deadline))
    /\ LET diffDays ==
               Quotient(Val(GetTime(registration_deadline)) - clock, MsPerDay)
       IN  QuotientLeq(diffDays, SoonDays) /\ QuotientGt(diffDays, 0)

\* A card is mounted for a hackathon; nothing is rendered yet.
InitCard ==
    /\ InitSchema
    /\ detail = NoPage
    /\ listing = InitListing
    /\ calendar = NoCalendar
    /\ health = NoHealth
    /\ handled = NoCall
    /\ retry = NoCall
    /\ request = NoCall
    /\ card \in [phase : {"mounted"}, registration_deadline : DeadlineStrings,
                 clock : {0}, rendered : {NULL}]

\* Time passes; the card on the screen stays as it was rendered.
CardClockAdvances(t) ==
    /\ card.phase = "mounted" /\ t > card.clock
    /\ card' = [card EXCEPT !.clock = t]
    /\ UNCHANGED notCard

\* HackathonCard renders: {isDeadlineSoon() && <Badge>Deadline Soon</Badge>}
RenderCard ==
    /\ card.phase = "mounted"
    /\ card' = [card EXCEPT !.rendered =
          Some([at |-> card.clock,
                badge |-> isDeadlineSoon(card.registration_deadline, card.clock)])]
    /\ UNCHANGED notCard

NextCard ==
    \/ \E t \in RenderInstants : CardClockAdvances(t)
    \/ RenderCard

SpecCard == InitCard /\ [][NextCard]_vars

\* ---------------------------------------------- HackathonsPage (listing)
\* fetchHackathons is called MaxListingRequests times at most.
MaxListingRequests == 3

\* if (newFilters.<key>): the value of the key is truthy (a non-empty
\* string, true, a number other than 0, categories?.length other than 0).
Truthy(key, value) ==
    CASE key \in {"q", "location", "difficulty_level"} -> value # ""
      [] key = "is_online" -> value
      [] key = "min_prize" -> value # 0
      [] key = "categories" -> Len(value) > 0

\* The parameters fetchHackathons puts in the request for newFilters: the
\* six keys it reads, each only when its value is truthy, then page and
\* size.
ListingParams(newFilters, page, size) ==
    [filters |->
        [k \in {k \in DOMAIN newFilters \cap
                      {"q", "location", "is_online", "difficulty_level",
                       "min_prize", "categories"} : Truthy(k, newFilters[k])}
            |-> IF k = "is_online" THEN "true" ELSE newFilters[k]],
     page |-> page, size |-> size]

\* The PaginatedResponse the API answers a request with: the page of the
\* hackathons matching the parameters, and the page and size it was asked.
ListingData(params) ==
    [data |-> <<params.filters, params.page>>,
     total |-> IF "q" \in DOMAIN params.filters THEN 13 ELSE 25,
     page |-> params.page,
     pages |-> IF "q" \in DOMAIN params.filters THEN 2 ELSE 3,
     size |-> params.size]

\* fetchHackathons(newFilters, page) up to its await of fetch:
\* setLoading(true), setError(null), the request is sent.
fetchHackathons(l, newFilters, page) ==
    LET seq == Len(l.issued) + 1
    IN  [l EXCEPT
            !.loading = TRUE,
            !.error = NULL,
            !.issued = Append(@, [newFilters |-> newFilters, page |-> page,
                                  params |-> ListingParams(newFilters, page,
                                                           l.pagination.size)]),
            !.inflight = @ \cup {[seq |-> seq, stage |-> "fetch"]}]

\* A call of fetchHackathons that has ended, with how it ended.
Settle(l, r, how) ==
    [l EXCEPT
        !.inflight = @ \ {r},
        !.settled = [k \in DOMAIN @ \cup {r.seq} |->
                        IF k = r.seq THEN how ELSE @[k]]]

CanFetch == Len(listing.issued) < MaxListingRequests

\* { ...filters, [key]: value }
With(filters, key, value) ==
    [k \in DOMAIN filters \cup {key} |-> IF k = key THEN value ELSE filters[k]]

\* The debounce effect without its cleanup: every timer set stays pending.
SearchEffectNoCleanup(l, text) ==
    IF text = l.searchQuery
    THEN l
    ELSE [l EXCEPT
             !.searchQuery = text,
             !.effects = @ + 1,
             !.timers = @ \cup {[id |-> l.effects + 1,
                                 due |-> l.clock + DebounceMs,
                                 filters |-> l.filters,
                                 searchQuery |-> text]},
             !.edited = l.clock,
             !.burst = IF l.timers = {} THEN <<text>> ELSE Append(@, text)]

\* setSearchQuery(text) and the render that follows, in a page whose other
\* state updates of the same handler are already in l.  A text equal to the
\* state's leaves the state alone.  Otherwise searchQuery, a dependency of
\* the effect, has changed: the cleanup of the last run clears its timer
\* and the effect sets a new one, whose callback sees the filters and the
\* searchQuery of this render.
SearchEffect(l, text) ==
    IF text = l.searchQuery
    THEN l
    ELSE [l EXCEPT
             !.searchQuery = text,
             !.effects = @ + 1,
             !.timers = {t \in @ : t.id # l.effects} \cup
                            {[id |-> l.effects + 1,
                              due |-> l.clock + DebounceMs,
                              filters |-> l.filters,
                              searchQuery |-> text]},
             !.edited = l.clock,
             !.burst = IF l.timers = {} THEN <<text>> ELSE Append(@, text)]

\* handleFiltersChange(newFilters)
handleFiltersChange(newFilters) ==
    /\ CanFetch
    /\ listing' = fetchHackathons([listing EXCEPT !.filters = newFilters,
                                                  !.cleared = NULL],
                                  newFilters, 1)
    /\ UNCHANGED notListing

\* handleRemoveFilter(key) for a key other than categories; removing q
\* also calls setSearchQuery('').
handleRemoveFilter(key) ==
    /\ CanFetch
    /\ LET newFilters == [k \in DOMAIN listing.filters \ {key} |->
                             listing.filters[k]]
           l == [listing EXCEPT !.filters = newFilters, !.cleared = NULL]
       IN  listing' = fetchHackathons(IF key = "q" THEN SearchEffect(l, "")
                                                   ELSE l,
                                      newFilters, 1)
    /\ UNCHANGED notListing

\* handlePageChange(newPage)
handlePageChange(newPage) ==
    /\ CanFetch
    /\ listing' = fetchHackathons([listing EXCEPT !.cleared = NULL],
                                  listing.filters, newPage)
    /\ UNCHANGED notListing

\* The fetch of call r settles: a response with ok true takes the call on
\* to response.json(); a response with ok false throws 'Failed to fetch
\* hackathons', a rejection throws its own error; catch and finally run.
ListingFetchSettles(r, result) ==
    /\ r \in listing.inflight /\ r.stage = "fetch"
    /\ listing' =
          IF result = "ok"
          THEN [listing EXCEPT !.inflight = (@ \ {r}) \cup
                                   {[seq |-> r.seq, stage |-> "json"]}]
          ELSE [Settle(listing, r, "error") EXCEPT
                   !.error = Some(IF result = "not ok"
                                  THEN "Failed to fetch hackathons"
                                  ELSE "fetch failed"),
                   !.loading = FALSE]
    /\ UNCHANGED notListing

\* response.json() of call r settles: setHackathons, setPagination and
\* router.replace with the call's own newFilters and page, or the catch
\* block; then finally.
ListingJsonSettles(r, parsed) ==
    /\ r \in listing.inflight /\ r.stage = "json"
    /\ LET call == listing.issued[r.seq]
           data == ListingData(call.params)
       IN  listing' =
             IF parsed
             THEN [Settle(listing, r, "shown") EXCEPT
                      !.hackathons = data.data,
                      !.pagination = [total |-> data.total, page |-> data.page,
                                      pages |-> data.pages, size |-> data.size],
                      !.url = Some([filters |-> call.newFilters,
                                    page |-> call.page]),
                      !.loading = FALSE]
             ELSE [Settle(listing, r, "error") EXCEPT
                      !.error = Some("Unexpected token"),
                      !.loading = FALSE]
    /\ UNCHANGED notListing

\* The filter states the user chooses.
FilterArgs == {EmptyFilters, [q |-> "ai"], [q |-> "ai", sort |-> "newest"]}
\* The pages the pagination buttons lead to.
PageArgs(l) == {p \in {l.pagination.page - 1, l.pagination.page + 1} :
                   p >= 1 /\ p <= l.pagination.pages}

NextListing ==
    \/ \E f \in FilterArgs : handleFiltersChange(f)
    \/ \E key \in DOMAIN listing.filters : handleRemoveFilter(key)
    \/ \E p \in PageArgs(listing) : handlePageChange(p)
    \/ \E r \in listing.inflight, result \in {"ok", "not ok", "rejected"} :
          ListingFetchSettles(r, result)
    \/ \E r \in listing.inflight, parsed \in BOOLEAN : ListingJsonSettles(r, parsed)

SpecListing == Init /\ [][NextListing]_vars

\* ------------------------------------- HackathonsPage (search debounce)
\* The search text is edited MaxEdits times at most while a timer is
\* pending, and the clock stops at MaxSearchClock.
MaxEdits == 2
MaxSearchClock == 1000
\* The clock advances in steps of this many ms.
ClockStep == 250

\* The texts typed in the search input.
SearchTexts == {"", "ai", "ml"}
\* The (field, value) pairs the filter panel passes to handleInputChange.
InputChanges == {<<"is_online", TRUE>>, <<"date_range", "this_week">>}
\* The values of the sort dropdown.
SortArgs == {"newest"}

\* onChange of the search input: setSearchQuery(e.target.value)
setSearchQuery(text) ==
    /\ listing.timers # {} => Len(listing.burst) < MaxEdits
    /\ text # listing.searchQuery
    /\ listing' = SearchEffect([listing EXCEPT !.cleared = NULL], text)
    /\ UNCHANGED notListing

\* SearchFilters.handleInputChange(field, value):
\* onFiltersChange({ ...filters, [field]: value })
handleInputChange(field, value) ==
    handleFiltersChange(With(listing.filters, field, value))

\* onChange of the SortDropdown:
\* handleFiltersChange({ ...filters, sort: value })
SortChange(value) ==
    handleFiltersChange(With(listing.filters, "sort", value))

\* handleClearFilters: setFilters({}), setSearchQuery(''),
\* fetchHackathons({}, 1)
handleClearFilters ==
    /\ CanFetch
    /\ listing' =
          fetchHackathons(
              SearchEffect([listing EXCEPT !.filters = EmptyFilters,
                                           !.cleared = Some(Len(listing.issued))],
                           ""),
              EmptyFilters, 1)
    /\ UNCHANGED notListing

\* if (searchQuery !== filters.q), in the render that set the timer
\* (a filters without q has filters.q undefined).
SearchDiffers(t) ==
    "q" \notin DOMAIN t.filters \/ t.filters.q # t.searchQuery

\* The callback of timer t runs when t is due: when the searchQuery and
\* the filters.q of the render that set t differ, it calls
\* handleFiltersChange({ ...filters, q: searchQuery }) with the filters
\* of that render.
SearchTimerFires(t) ==
    /\ t \in listing.timers
    /\ t.due = listing.clock
    /\ SearchDiffers(t) => CanFetch
    /\ LET newFilters == With(t.filters, "q", t.searchQuery)
           l == [listing EXCEPT !.timers = @ \ {t}]
       IN  listing' =
             IF SearchDiffers(t)
             THEN fetchHackathons([l EXCEPT !.filters = newFilters],
                                  newFilters, 1)
             ELSE l
    /\ UNCHANGED notListing

\* Time passes, up to the moment the next timer is due.
SearchClockAdvances ==
    /\ listing.clock + ClockStep <= MaxSearchClock
    /\ \A t \in listing.timers : t.due >= listing.clock + ClockStep
    /\ listing' = [listing EXCEPT !.clock = @ + ClockStep]
    /\ UNCHANGED notListing

NextSearch ==
    \/ \E text \in SearchTexts : setSearchQuery(text)
    \/ \E c \in InputChanges : handleInputChange(c[1], c[2])
    \/ \E value \in SortArgs : SortChange(value)
    \/ handleClearFilters
    \/ \E t \in listing.timers : SearchTimerFires(t)
    \/ SearchClockAdvances

SpecSearch == Init /\ [][NextSearch]_vars

\* ----------------------------------------------------------- CalendarPage
\* The page is mounted on a day of MaxCalendarYears years from BaseYear on
\* (BaseYear is a leap year), and navigation stays within them.
MaxCalendarYears == 2
BaseYear == 2024
CalendarYears == BaseYear..(BaseYear + MaxCalendarYears - 1)

\* Months are numbered as Date.getMonth() numbers them, from 0 to 11.
IsLeapYear(year) ==
    (year % 4 = 0 /\ year % 100 # 0) \/ year % 400 = 0
DaysInMonth(year, month) ==
    CASE month \in {3, 5, 8, 10} -> 30
      [] month = 1 -> IF IsLeapYear(year) THEN 29 ELSE 28
      [] OTHER -> 31

\* The calendar dates new Date() gives.
CalendarDates ==
    {d \in [year : CalendarYears, month : 0..11, day : 1..31] :
        d.day <= DaysInMonth(d.year, d.month)}

\* The date of year, month and day as Date.prototype.setMonth makes it:
\* a month below 0 or above 11 moves the year, and a day past the end of
\* the month moves on into the month after.
MakeDate(year, month, day) ==
    LET y == year + (month \div 12)
        m == month % 12
    IN  IF day <= DaysInMonth(y, m)
        THEN [year |-> y, month |-> m, day |-> day]
        ELSE [year |-> IF m = 11 THEN y + 1 ELSE y,
              month |-> (m + 1) % 12,
              day |-> day - DaysInMonth(y, m)]

\* newDate in navigateMonth(direction):
\* new Date(currentDate).setMonth(currentMonth + (direction === 'next' ? 1 : -1))
newDate(currentDate, direction) ==
    MakeDate(currentDate.year,
             currentDate.month + (IF direction = "next" THEN 1 ELSE -1),
             currentDate.day)

\* The month the header shows, counted from year 0:
\* monthNames[currentMonth] and currentYear.
DisplayedMonth(currentDate) == currentDate.year * 12 + currentDate.month

\* The page as first rendered: currentDate is new Date(), today.
InitCalendar ==
    /\ InitSchema
    /\ detail = NoPage
    /\ card = NoCard
    /\ listing = InitListing
    /\ handled = NoCall
    /\ retry = NoCall
    /\ request = NoCall
    /\ health = NoHealth
    /\ calendar \in [phase : {"mounted"}, today : CalendarDates, currentDate : CalendarDates]
    /\ calendar.currentDate = calendar.today

\* navigateMonth(direction)
navigateMonth(direction) ==
    /\ calendar.phase = "mounted"
    /\ newDate(calendar.currentDate, direction).year \in CalendarYears
    /\ calendar' = [calendar EXCEPT
                       !.currentDate = newDate(calendar.currentDate, direction)]
    /\ UNCHANGED notCalendar

\* The Today button: setCurrentDate(new Date())
CalendarToday ==
    /\ calendar.phase = "mounted"
    /\ calendar' = [calendar EXCEPT !.currentDate = calendar.today]
    /\ UNCHANGED notCalendar

NextCalendar ==
    \/ \E direction \in {"prev", "next"} : navigateMonth(direction)
    \/ CalendarToday

SpecCalendar == InitCalendar /\ [][NextCalendar]_vars

\* ------------------------------------------------------------- HealthPage
\* checkBackendHealth is called MaxHealthChecks times at most.
MaxHealthChecks == 3

\* The status of the HealthStatus a check resolves with, and the message
\* of the Error apiRequest rejects with.
HealthResults == {"healthy", "degraded", "unhealthy"}
HealthErrors == {"Request timed out", "Failed to fetch"}

\* checkBackendHealth() up to its await of apiRequest: setError(null), the
\* request is sent.  by tells what made the call.
checkBackendHealth(h, by) ==
    [h EXCEPT
        !.error = NULL,
        !.started = @ + 1,
        !.inflight = @ \cup {[id |-> h.started + 1, by |-> by]}]

\* The page after its first render and its effect: the useState initial
\* values, the first check in flight and the interval set.
InitHealth ==
    /\ InitSchema
    /\ detail = NoPage
    /\ card = NoCard
    /\ listing = InitListing
    /\ handled = NoCall
    /\ retry = NoCall
    /\ request = NoCall
    /\ calendar = NoCalendar
    /\ health = checkBackendHealth([phase |-> "mounted",
                                    backendHealth |-> NULL,
                                    loading |-> TRUE,
                                    error |-> NULL,
                                    lastChecked |-> NULL,
                                    started |-> 0,
                                    inflight |-> {}],
                                   "mount")

\* The interval set by the effect fires: setInterval(checkBackendHealth,
\* 30000).  apiRequest clears its timeout once fetch has resolved, so a
\* check may still be reading its response when the interval fires again.
HealthIntervalFires ==
    /\ health.phase = "mounted"
    /\ health.started < MaxHealthChecks
    /\ health' = checkBackendHealth(health, "interval")
    /\ UNCHANGED notHealth

\* The Refresh button, rendered when loading is false.
HealthRefresh ==
    /\ health.phase = "mounted"
    /\ ~health.loading
    /\ health.started < MaxHealthChecks
    /\ health' = checkBackendHealth(health, "refresh")
    /\ UNCHANGED notHealth

\* apiRequest of check c resolves: setBackendHealth(response),
\* setLastChecked(new Date()); finally setLoading(false).
HealthCheckResolves(c, response) ==
    /\ c \in health.inflight
    /\ health' = [health EXCEPT
                     !.backendHealth = Some(response),
                     !.lastChecked = Some(c.id),
                     !.loading = FALSE,
                     !.inflight = @ \ {c}]
    /\ UNCHANGED notHealth

\* apiRequest of check c rejects: setError(err.message),
\* setBackendHealth(null); finally setLoading(false).
HealthCheckRejects(c, message) ==
    /\ c \in health.inflight
    /\ health' = [health EXCEPT
                     !.error = Some(message),
                     !.backendHealth = NULL,
                     !.loading = FALSE,
                     !.inflight = @ \ {c}]
    /\ UNCHANGED notHealth

NextHealth ==
    \/ HealthIntervalFires
    \/ HealthRefresh
    \/ \E c \in health.inflight, response \in HealthResults :
          HealthCheckResolves(c, response)
    \/ \E c \in health.inflight, message \in HealthErrors :
          HealthCheckRejects(c, message)

SpecHealth == InitHealth /\ [][NextHealth]_vars

\* ----------------------------------- the API client: handleApiResponse
\* The error member of an ApiErrorResponse.
ApiErrors ==
    {[code |-> "VALIDATION_ERROR", message |-> "Invalid input"],
     [code |-> "RESOURCE_NOT_FOUND", message |-> "Not found"]}

\* The values a response body parses to: null, a string (response.text(),
\* or a JSON string), or an object with the members given.
ParsedBodies ==
    {[kind |-> "null"], [kind |-> "string", text |-> ""],
     [kind |-> "string", text |-> "Bad Gateway"]}
    \cup {[kind |-> "object", members |-> m] :
            m \in [success : {FALSE}, error : ApiErrors]
                  \cup [error : ApiErrors]
                  \cup {[success |-> FALSE], [detail |-> "Not Found"],
                        [success |-> TRUE, data |-> "payload"],
                        [success |-> TRUE]}}

\* data && typeof data === 'object'
IsObject(data) == data.kind = "object"
\* data.<member>, undefined (here NULL) when the object has no such member.
Member(data, name) ==
    IF name \in DOMAIN data.members THEN Some(data.members[name]) ELSE NULL

Returns(value) == [kind |-> "return", value |-> value]
Throws(error) == [kind |-> "throw", error |-> error]

\* new HackSeekAPIError(message, code, statusCode)
HackSeekAPIError(message, code, statusCode) ==
    [name |-> "HackSeekAPIError", message |-> message, code |-> code,
     statusCode |-> statusCode]
\* What reading a property of undefined throws.
TypeError ==
    [name |-> "TypeError", message |-> "Cannot read properties of undefined"]

\* throw new HackSeekAPIError(apiError.error.message, apiError.error.code,
\* response.status, ...): reading .message of a missing error member throws
\* a TypeError before the constructor is reached.
ThrowApiError(response, data) ==
    IF IsNull(Member(data, "error")) THEN Throws(TypeError)
    ELSE LET error == Val(Member(data, "error"))
         IN  Throws(HackSeekAPIError(error.message, error.code, response.status))

\* handleApiResponse(response, data)
handleApiResponse(response, data) ==
    IF ~response.ok
    THEN IF IsObject(data) /\ Member(data, "success") \in {NULL, Some(FALSE)}
         THEN ThrowApiError(response, data)
         ELSE Throws(HackSeekAPIError(<<"HTTP", response.status>>, "HTTP_ERROR",
                                      response.status))
    ELSE IF IsObject(data) /\ Member(data, "success") = Some(FALSE)
    THEN ThrowApiError(response, data)
    ELSE IF IsObject(data) /\ Member(data, "success") = Some(TRUE)
    THEN Returns(Member(data, "data"))
    ELSE Returns(Some(data))

\* The Response of a fetch that resolved with the status.
ResponseOf(status) == [ok |-> ResponseOk(status), status |-> status]

\* A caller holds a response and its parsed body.
InitHandled ==
    /\ InitSchema
    /\ detail = NoPage
    /\ card = NoCard
    /\ listing = InitListing
    /\ calendar = NoCalendar
    /\ health = NoHealth
    /\ handled \in [phase : {"called"}, response : {ResponseOf(s) : s \in Statuses},
                    data : ParsedBodies]
    /\ retry = NoCall
    /\ request = NoCall

\* handleApiResponse runs to its return or throw.
HandleResponse ==
    /\ handled.phase = "called"
    /\ handled' = [phase |-> "ended", response |-> handled.response,
                   data |-> handled.data,
                   outcome |-> handleApiResponse(handled.response, handled.data)]
    /\ UNCHANGED notHandled

NextHandled == HandleResponse

SpecHandled == InitHandled /\ [][NextHandled]_vars

\* ------------------------------------- the API client: retryWithBackoff
\* retryWithBackoff is called with maxRetries in 0..MaxRetriesArg.
MaxRetriesArg == 3

\* What an invocation of fn rejects with: a HackSeekAPIError of one of the
\* codes, a NetworkError, a TimeoutError, or a plain Error that carries a
\* code member.
FnErrors ==
    {[name |-> "HackSeekAPIError", code |-> c] :
        c \in {"VALIDATION_ERROR", "AUTHENTICATION_ERROR", "AUTHORIZATION_ERROR",
               "RATE_LIMIT_ERROR"}}
    \cup {[name |-> "NetworkError"], [name |-> "TimeoutError"],
          [name |-> "Error", code |-> "VALIDATION_ERROR"]}
\* How an invocation of fn settles.
FnOutcomes == {[ok |-> TRUE, value |-> "data"]} \cup [ok : {FALSE}, error : FnErrors]

\* Mutant: the list without AUTHORIZATION_ERROR.
NonRetryableCodesShort == {"VALIDATION_ERROR", "AUTHENTICATION_ERROR"}
\* ['VALIDATION_ERROR', 'AUTHENTICATION_ERROR', 'AUTHORIZATION_ERROR']
NonRetryableCodes ==
    {"VALIDATION_ERROR", "AUTHENTICATION_ERROR", "AUTHORIZATION_ERROR"}

\* error instanceof HackSeekAPIError && [...].includes(error.code)
NonRetryable(error) ==
    error.name = "HackSeekAPIError" /\ error.code \in NonRetryableCodes

\* Mutant: the loop condition i <= maxRetries.
LoopTestInclusive(i, maxRetries) == i <= maxRetries
\* i < maxRetries
LoopTest(i, maxRetries) == i < maxRetries

\* The for loop from its condition, with counter i, to the next await or to
\* the end of the function: fn is invoked, or lastError is thrown
\* (undefined, here NULL, when fn was never invoked).  outcomes lists how
\* the invocations of fn ended, pending holds those not yet settled.
RetryLoop(r, i) ==
    IF LoopTest(i, r.maxRetries)
    THEN [r EXCEPT !.phase = "calling", !.i = i,
                   !.pending = @ \cup {Len(r.outcomes) + Cardinality(@) + 1}]
    ELSE [r EXCEPT !.phase = "rejected", !.i = i, !.thrown = r.lastError]

\* retryWithBackoff(fn, maxRetries) has been called.
InitRetry ==
    /\ InitSchema
    /\ detail = NoPage
    /\ card = NoCard
    /\ listing = InitListing
    /\ calendar = NoCalendar
    /\ health = NoHealth
    /\ handled = NoCall
    /\ retry \in [phase : {"called"}, maxRetries : 0..MaxRetriesArg, i : {0},
                  outcomes : {<<>>}, pending : {{}}, delays : {<<>>},
                  lastError : {NULL}, thrown : {NULL}, result : {NULL}]
    /\ request = NoCall

\* The call runs to its first await.
RetryStart ==
    /\ retry.phase = "called"
    /\ retry' = RetryLoop(retry, 0)
    /\ UNCHANGED notRetry

\* The pending invocation n of fn settles.  Resolved: return await fn().
\* Rejected: the catch block, which rethrows a non-retryable error, sets
\* the backoff timer when another attempt remains, and otherwise goes round
\* the loop.
FnSettles(n, outcome) ==
    /\ retry.phase = "calling" /\ n \in retry.pending
    /\ LET error == outcome.error @@ [thrownBy |-> n]
           r == [retry EXCEPT !.pending = @ \ {n},
                              !.outcomes = Append(@,
                                  IF outcome.ok THEN outcome
                                  ELSE [ok |-> FALSE, error |-> error])]
       IN  retry' =
             IF outcome.ok
             THEN [r EXCEPT !.phase = "resolved", !.result = Some(outcome.value)]
             ELSE IF NonRetryable(error)
             THEN [r EXCEPT !.phase = "rejected", !.lastError = Some(error),
                            !.thrown = Some(error)]
             ELSE IF retry.i < retry.maxRetries - 1
             THEN [r EXCEPT !.phase = "waiting", !.lastError = Some(error),
                            !.delays = Append(@, retry.i)]
             ELSE RetryLoop([r EXCEPT !.lastError = Some(error)], retry.i + 1)
    /\ UNCHANGED notRetry

\* The backoff timer (baseDelay * 2^i + jitter) fires: i++ and the loop
\* goes round.
BackoffTimerFires ==
    /\ retry.phase = "waiting"
    /\ retry' = RetryLoop(retry, retry.i + 1)
    /\ UNCHANGED notRetry

NextRetry ==
    \/ RetryStart
    \/ \E n \in retry.pending, outcome \in FnOutcomes : FnSettles(n, outcome)
    \/ BackoffTimerFires

SpecRetry == InitRetry /\ [][NextRetry]_vars

\* Every invocation of fn settles and every timer fires.
SpecRetryFair == SpecRetry /\ WF_vars(NextRetry)

\* ------------------------------------------- the API client: apiRequest
\* const { timeout = 30000, ...fetchOptions } = options
DefaultTimeout == 30000

\* options.headers: a HeadersInit the Headers constructor accepts, or one
\* it rejects with a TypeError (a name or value that is no header name or
\* value).
HeaderArgs == {"valid", "invalid"}
\* options.timeout: left out, or given.
TimeoutArgs == {NULL, Some(5000)}
\* The content-type header of the response.
ContentTypes == {"application/json", "text/html"}

\* What fetch rejects with when it was not aborted: the TypeError of a
\* network failure, or a value that is no Error.
FetchFailures == {[name |-> "TypeError", message |-> "Failed to fetch"],
                  [value |-> "not an Error"]}
\* What fetch rejects with once its signal is aborted.
AbortError == [name |-> "AbortError", message |-> "The operation was aborted"]

\* The outer catch block of apiRequest: what it throws for what it caught.
CatchRequestError(error) ==
    IF "name" \in DOMAIN error /\ error.name = "AbortError"
    THEN [name |-> "TimeoutError", message |-> "Request timed out"]
    ELSE IF "name" \in DOMAIN error /\ error.name = "HackSeekAPIError"
    THEN error
    ELSE [name |-> "NetworkError",
          message |-> IF "name" \in DOMAIN error THEN error.message
                      ELSE "Unknown network error"]

\* apiRequest(url, options) has been called.
InitRequest ==
    /\ InitSchema
    /\ detail = NoPage
    /\ card = NoCard
    /\ listing = InitListing
    /\ calendar = NoCalendar
    /\ health = NoHealth
    /\ handled = NoCall
    /\ retry = NoCall
    /\ request \in [phase : {"called"}, headers : HeaderArgs,
                    timeout : {IF IsNull(t) THEN DefaultTimeout ELSE Val(t) :
                                  t \in TimeoutArgs},
                    timer : {"none"}, aborted : {FALSE}]

\* The call runs to its await of fetch: new Headers(...) outside the try
\* block, then the AbortController, the timer and fetch.
RequestStart ==
    /\ request.phase = "called"
    /\ request' =
          IF request.headers = "invalid"
          THEN [request EXCEPT !.phase = "rejected"]
                   @@ [error |-> [name |-> "TypeError",
                                  message |-> "Invalid header"]]
          ELSE [request EXCEPT !.phase = "fetching", !.timer = "set"]
    /\ UNCHANGED notRequest

\* The timer fires after timeout ms with fetch still pending:
\* controller.abort().
RequestTimerFires ==
    /\ request.phase = "fetching" /\ request.timer = "set"
    /\ request' = [request EXCEPT !.timer = "fired", !.aborted = TRUE]
    /\ UNCHANGED notRequest

\* fetch rejects, with the AbortError when its signal is aborted: the outer
\* catch block (clearTimeout is not reached).
RequestFetchRejects(failure) ==
    /\ request.phase = "fetching"
    /\ LET error == IF request.aborted THEN AbortError ELSE failure
       IN  request' = [request EXCEPT !.phase = "rejected"]
                          @@ [caught |-> error, error |-> CatchRequestError(error)]
    /\ UNCHANGED notRequest

\* fetch resolves with a response before any abort: clearTimeout, then the
\* body is read as JSON or as text by the content-type.
RequestFetchResolves(status, contentType) ==
    /\ request.phase = "fetching" /\ ~request.aborted
    /\ request' = [request EXCEPT !.phase = "reading", !.timer = "cleared"]
                       @@ [response |-> ResponseOf(status),
                           contentType |-> contentType]
    /\ UNCHANGED notRequest

\* The bodies response.json() and response.text() resolve with.
BodiesOf(contentType) ==
    IF contentType = "application/json" THEN ParsedBodies
    ELSE {b \in ParsedBodies : b.kind = "string"}

\* The body read rejects: the inner catch throws the PARSE_ERROR, which the
\* outer catch rethrows.
RequestBodyFails ==
    /\ request.phase = "reading"
    /\ LET error == HackSeekAPIError("Failed to parse response", "PARSE_ERROR",
                                     request.response.status)
       IN  request' = [request EXCEPT !.phase = "rejected"]
                          @@ [caught |-> error, error |-> CatchRequestError(error)]
    /\ UNCHANGED notRequest

\* The body read resolves with data: return handleApiResponse(response,
\* data), whose throw the outer catch handles.
RequestBodyRead(data) ==
    /\ request.phase = "reading" /\ data \in BodiesOf(request.contentType)
    /\ LET outcome == handleApiResponse(request.response, data)
       IN  request' =
             IF outcome.kind = "return"
             THEN [request EXCEPT !.phase = "resolved"]
                      @@ [data |-> data, value |-> outcome.value]
             ELSE [request EXCEPT !.phase = "rejected"]
                      @@ [data |-> data, caught |-> outcome.error,
                          error |-> CatchRequestError(outcome.error)]
    /\ UNCHANGED notRequest

NextRequest ==
    \/ RequestStart
    \/ RequestTimerFires
    \/ \E failure \in FetchFailures : RequestFetchRejects(failure)
    \/ \E status \in Statuses, contentType \in ContentTypes :
          RequestFetchResolves(status, contentType)
    \/ RequestBodyFails
    \/ \E data \in ParsedBodies : RequestBodyRead(data)

SpecRequest == InitRequest /\ [][NextRequest]_vars

\* ------------------------------------------------------- the whole system
Next ==
    \/ NextAccounts \/ NextChat \/ NextIngest \/ NextTouch \/ NextViews
    \/ NextFeatured \/ NextEnums
    \/ NextDetail \/ NextCard \/ NextListing \/ NextHandled
    \/ NextRetry \/ NextRequest
    \/ NextSearch \/ NextCalendar \/ NextHealth

Spec == Init /\ [][Next]_vars

\* ================================================================ claims

\* The rows of user_favorites for the pair (u, h).
FavoritesOf(rows, u, h) == {f \in rows : f.user_id = u /\ f.hackathon_id = h}
\* The tables a statement reads and a reader may come to see: the committed
\* ones and the ones a transaction has written and not yet committed.
Tables == {db} \cup (IF staged = NoStage THEN {} ELSE {staged.db})

\* C1: whatever the interleaving of the connections' add-favorite and
\* remove-favorite transactions, user_favorites holds at most one row per
\* (user_id, hackathon_id) pair, in the committed table and in the table as
\* an open transaction has written it.
C1_AtMostOneFavoritePerPair ==
    \A d \in Tables : \A f, g \in d.user_favorites :
        (f.user_id = g.user_id /\ f.hackathon_id = g.hackathon_id) => f = g

\* C1 witness: a pair is stored and committed, a second add has been turned
\* away by the constraint, and the other connection is inside a transaction.
C1_Witness ==
    /\ last.op = "AddFavorite" /\ last.err = "unique_violation"
    /\ db.user_favorites # {}
    /\ \E c \in Conns : tx[c].st = "open"

C9_UserDeleteFavoritesAndLogs ==
    [][\A u \in Ids(db.users) \ Ids(db'.users) :
          /\ db'.users = {x \in db.users : x.id # u}
          /\ db'.user_favorites = {f \in db.user_favorites : f.user_id # u}
          /\ Ids(db'.search_logs) = Ids(db.search_logs)
          /\ \A l \in db.search_logs : \E m \in db'.search_logs :
                /\ m.id = l.id
                /\ m.user_id = (IF l.user_id = Some(u) THEN NULL ELSE l.user_id)
                /\ m.search_query = l.search_query
                /\ m.clicked_hackathon_id = l.clicked_hackathon_id
                /\ m.created_at = l.created_at]_vars

\* C9 witness: a transaction has deleted a user who had a favourite and a
\* search log while another user has a favourite too.
C9_Witness ==
    /\ last.op = "RemoveUser" /\ staged # NoStage
    /\ \E u \in Ids(db.users) \ Ids(staged.db.users) :
          /\ \E f \in db.user_favorites : f.user_id = u
          /\ \E l \in db.search_logs : l.user_id = Some(u)
          /\ \E f \in staged.db.user_favorites : f.user_id # u

C3_AppendNeedsActiveSession ==
    [][\A c \in Conns, sid \in IdArgs(db.chat_sessions), m \in MessageTypeArgs :
          (/\ AppendChatMessage(c, sid, m, NULL)
           /\ \A s \in db.chat_sessions : s.id = sid => ~s.is_active)
              => (last'.err # "none" /\ staged' = staged /\ db' = db)]_vars

\* C5 as claimed: for every committed message m of a committed session s,
\* s.last_activity_at >= m.created_at.
C5_ActivityNotBeforeMessage ==
    \A s \in db.chat_sessions, m \in db.chat_messages :
        m.session_id = s.id => s.last_activity_at >= m.created_at

\* C4 as claimed: at every instant Upcoming is exactly the rows of Active
\* whose start_date is in the future and whose registration_deadline is
\* NULL or in the future.
C4_UpcomingWithinActive ==
    \A t \in Times :
        upcoming_hackathons(db, t) =
            {h \in active_hackathons(db, t) :
                /\ SqlGt(h.start_date, t)
                /\ (IsNull(h.registration_deadline)
                    \/ SqlGt(h.registration_deadline, t))}

\* C4 as amended: at every instant Upcoming is exactly the rows with
\* is_active true, start_date in the future and registration_deadline NULL
\* or in the future, whatever their end_date; such a row is in Active too
\* when its end_date is NULL or not earlier than its start_date.
C4_UpcomingOfConsistentRowsWithinActive ==
    \A t \in Times : \A h \in db.hackathons :
        /\ h \in upcoming_hackathons(db, t)
              <=> /\ h.is_active = Some(TRUE)
                  /\ ~IsNull(h.start_date) /\ Val(h.start_date) > t
                  /\ (IsNull(h.registration_deadline)
                      \/ Val(h.registration_deadline) > t)
        /\ (/\ h \in upcoming_hackathons(db, t)
            /\ (IsNull(h.end_date) \/ Val(h.end_date) >= Val(h.start_date)))
              => h \in active_hackathons(db, t)

\* C4 witness: a committed row that Upcoming returns and Active does not
\* (it ended before it starts), at some instant.
C4_Witness ==
    \E t \in Times : \E h \in upcoming_hackathons(db, t) :
        h \notin active_hackathons(db, t) /\ Val(h.end_date) < Val(h.start_date)

\* C8: at every instant, a hackathon whose is_active is false is returned by
\* none of the three views, whatever its dates and prize money, as soon as
\* the deactivation is in the tables read.
C8_InactiveInNoView ==
    \A d \in Tables : \A t \in Times : \A h \in d.hackathons :
        h.is_active = Some(FALSE) =>
            /\ h \notin active_hackathons(d, t)
            /\ h \notin upcoming_hackathons(d, t)
            /\ h \notin featured_hackathons(d, t)

\* C8 witness: a committed deactivation of a row that, but for is_active,
\* meets the conditions of all three views at instant 0.
C8_Witness ==
    /\ last = [op |-> "ChangeHackathon", err |-> "none"] /\ staged = NoStage
    /\ \E h \in db.hackathons :
          /\ h.is_active = Some(FALSE)
          /\ LET g == [h EXCEPT !.is_active = Some(TRUE)]
                 d == [db EXCEPT !.hackathons = {g}]
             IN  /\ g \in active_hackathons(d, 0)
                 /\ g \in upcoming_hackathons(d, 0)
                 /\ g \in featured_hackathons(d, 0)

\* The row of rows with primary key id.
RowOf(rows, id) == CHOOSE r \in rows : r.id = id

\* C6 as claimed: an UPDATE of a hackathons or users row stores the
\* CURRENT_TIMESTAMP of the update in updated_at whatever the statement
\* supplies, and from one committed state to the next no row's updated_at
\* decreases.
C6_UpdatedAtNeverDecreases ==
    [][/\ \A c \in Conns, hid \in Ids(db.hackathons), set \in HackathonUpdates :
              (ChangeHackathon(c, hid, set) /\ last'.err = "none")
                  => RowOf(staged'.db.hackathons, hid).updated_at = tx[c].time
       /\ \A c \in Conns, uid \in Ids(db.users), set \in UserUpdates :
              (ChangeUser(c, uid, set) /\ last'.err = "none")
                  => RowOf(staged'.db.users, uid).updated_at = tx[c].time
       /\ \A h \in db.hackathons, g \in db'.hackathons :
              g.id = h.id => g.updated_at >= h.updated_at
       /\ \A u \in db.users, v \in db'.users :
              v.id = u.id => v.updated_at >= u.updated_at]_vars

\* The source key of a hackathons row.
SourceKey(h) == <<h.source_platform, h.source_id>>

NewMessages(d, e) == {m \in d.chat_messages : m.id \notin Ids(e.chat_messages)}

\* C11: a chat-message insert and the trigger's update of last_activity_at
\* are one write.  Wherever a message not yet committed is staged, its
\* session carries the inserting transaction's CURRENT_TIMESTAMP in the same
\* staged tables; the committed tables change only at a COMMIT, which brings
\* the message and the session's timestamp together; and a ROLLBACK of the
\* insert, or its rejection, leaves chat_messages and chat_sessions (so
\* last_activity_at) as they were committed.
C11_MessageAndActivityTogether ==
    /\ [](staged # NoStage =>
            \A m \in NewMessages(staged.db, db) :
                RowOf(staged.db.chat_sessions, m.session_id).last_activity_at
                    = tx[staged.by].time)
    /\ [][/\ \A m \in NewMessages(db', db) :
               /\ staged # NoStage /\ db' = staged.db
               /\ RowOf(db'.chat_sessions, m.session_id).last_activity_at
                     = tx[staged.by].time
          /\ \A c \in Conns :
               (Rollback(c)
                \/ \E sid \in IdArgs(db.chat_sessions), t \in MessageTypeArgs :
                      AppendChatMessage(c, sid, t, NULL))
                   => db' = db]_vars

\* C11 witness: session 1 is committed with message 3 and the timestamp the
\* insert gave it, after the insert of message 2 was rolled back (id 2 was
\* generated and no row has it), the clock having advanced since time 0.
C11_Witness ==
    /\ staged = NoStage
    /\ Ids(db.chat_sessions) = {1} /\ Ids(db.chat_messages) = {3}
    /\ \A s \in db.chat_sessions, m \in db.chat_messages :
          s.last_activity_at = m.created_at /\ m.created_at > 0

\* C12: at every instant, every listing the Featured view can return holds
\* exactly the rows of Active whose prize_money is not NULL and greater than
\* 0, each once, in non-increasing prize_money order; of two rows with equal
\* prize_money the one with the earlier start_date comes first (a row with
\* no start_date comes after those that have one).
C12_FeaturedListing ==
    \A t \in Times : \A l \in featured_listings(db, t) :
        /\ {l[i] : i \in DOMAIN l} =
              {h \in active_hackathons(db, t) :
                  ~IsNull(h.prize_money) /\ Val(h.prize_money) > 0}
        /\ \A i, j \in DOMAIN l : l[i] = l[j] => i = j
        /\ \A i, j \in DOMAIN l : i < j =>
              /\ Val(l[i].prize_money) >= Val(l[j].prize_money)
              /\ Val(l[i].prize_money) = Val(l[j].prize_money) =>
                    /\ ~IsNull(l[j].start_date) => ~IsNull(l[i].start_date)
                    /\ (~IsNull(l[i].start_date) /\ ~IsNull(l[j].start_date))
                          => Val(l[i].start_date) <= Val(l[j].start_date)

\* C12 witness: three committed rows, one left out of Featured at instant 0
\* for its prize money and two listed, these two with equal prize money and
\* different start dates.
C12_Witness ==
    /\ staged = NoStage /\ Cardinality(db.hackathons) = 3
    /\ \E l \in featured_listings(db, 0) :
          /\ Len(l) = 2
          /\ l[1].prize_money = l[2].prize_money
          /\ l[1].start_date # l[2].start_date
    /\ \E h \in active_hackathons(db, 0) :
          IsNull(h.prize_money) \/ Val(h.prize_money) = 0

\* The enumerated columns of tables d hold values of their lists:
\* message_type and status one of theirs, difficulty_level NULL or one of
\* its list.
EnumeratedValues(d) ==
    /\ \A m \in d.chat_messages : m.message_type \in MessageTypes
    /\ \A j \in d.scraping_jobs :
          ~IsNull(j.status) /\ Val(j.status) \in JobStatuses
    /\ \A h \in d.hackathons :
          IsNull(h.difficulty_level) \/ Val(h.difficulty_level) \in DifficultyLevels

\* A statement that ends in an error leaves the committed and the staged
\* tables as they were.
RejectedLeavesTables == (last'.err # "none") => (db' = db /\ staged' = staged)

\* C13 as claimed: in every reachable state the three enumerated columns
\* of the committed tables hold values of their lists (message_type and
\* status always, a difficulty_level when it is not NULL), and a write
\* carrying a value outside the list (for status: any value that is not one
\* of the five) is rejected and leaves the tables unchanged.
C13_EnumeratedValues ==
    /\ []EnumeratedValues(db)
    /\ [][/\ \A c \in Conns, set \in JobInserts :
               (AddScrapingJob(c, set) /\ "status" \in DOMAIN set
                /\ set.status \notin {Some(v) : v \in JobStatuses})
                   => (last'.err = "check_violation" /\ RejectedLeavesTables)
          /\ \A c \in Conns, jid \in Ids(db.scraping_jobs), set \in JobUpdates :
               (ChangeScrapingJob(c, jid, set)
                /\ set.status \notin {Some(v) : v \in JobStatuses})
                   => (last'.err = "check_violation" /\ RejectedLeavesTables)
          /\ \A c \in Conns, sid \in Ids(db.chat_sessions), m \in MessageTypeArgs :
               (AppendChatMessage(c, sid, m, NULL) /\ m \notin MessageTypes)
                   => (last'.err = "check_violation" /\ RejectedLeavesTables)
          /\ \A c \in Conns, set \in DifficultyInserts :
               (AddHackathon(c, set) /\ ~DifficultyCheck(set))
                   => (last'.err = "check_violation" /\ RejectedLeavesTables)
          /\ \A c \in Conns, hid \in Ids(db.hackathons), set \in DifficultyUpdates :
               (ChangeHackathon(c, hid, set) /\ ~DifficultyCheck(set))
                   => (last'.err = "check_violation" /\ RejectedLeavesTables)]_vars

\* The API reports that no hackathon has the requested id: a 404, or a
\* successful answer whose body is null.
ReportsAbsent(api) ==
    /\ api.kind = "response"
    /\ \/ api.status = 404
       \/ ResponseOk(api.status) /\ api.body = "null"

\* The API answers with a server error, or the request itself fails.
ReportsFailure(api) ==
    \/ api.kind = "rejected"
    \/ api.kind = "response" /\ api.status >= 500

\* C14 as claimed: a rendered detail page is headed 'Hackathon not found'
\* only when the API reported that no hackathon has the id, and is headed
\* otherwise when the API answered with a server error or the request
\* failed.
C14_AbsenceIsNotFailure ==
    detail.phase = "rendered" =>
        /\ detail.heading = NotFoundText => ReportsAbsent(detail.api)
        /\ ReportsFailure(detail.api) => detail.heading # NotFoundText

\* C15: a rendered card carries the 'Deadline Soon' badge exactly when its
\* hackathon has a registration deadline that is an instant strictly after
\* the instant of rendering and at most 7 x 86,400,000 ms after it; there is
\* no badge when the deadline is absent, is no date, has passed, is the
\* instant of rendering itself, or lies more than 7 days ahead.
C15_DeadlineSoonBadge ==
    (card.phase = "mounted" /\ ~IsNull(card.rendered)) =>
        LET at == Val(card.rendered).at
            str == card.registration_deadline
        IN  Val(card.rendered).badge <=>
                /\ ~IsNull(str) /\ "iso" \in DOMAIN Val(str)
                /\ Val(str).iso > at
                /\ Val(str).iso <= at + 7 * 86400000

\* C15 witness: a card rendered with the badge for a deadline exactly seven
\* days after the instant of rendering, the clock having advanced.
C15_Witness ==
    /\ card.phase = "mounted" /\ ~IsNull(card.rendered)
    /\ Val(card.rendered).badge
    /\ Val(card.rendered).at > 0
    /\ card.registration_deadline =
          Some([iso |-> Val(card.rendered).at + 7 * 86400000])

\* C16 as claimed: once no call of fetchHackathons is in flight and the
\* responses of all calls have been shown, the displayed list and pagination
\* are those of the response to the call issued last.
C16_LatestRequestShown ==
    (/\ Len(listing.issued) >= 2
     /\ listing.inflight = {}
     /\ \A k \in DOMAIN listing.settled : listing.settled[k] = "shown")
        => LET data == ListingData(listing.issued[Len(listing.issued)].params)
           IN  /\ listing.hackathons = data.data
               /\ listing.pagination = [total |-> data.total, page |-> data.page,
                                        pages |-> data.pages, size |-> data.size]

\* C17 as claimed: for every response with ok false and every parsed body,
\* handleApiResponse throws a HackSeekAPIError whose statusCode is the
\* response's status; it neither returns nor throws another error.
C17_NotOkThrowsApiError ==
    (handled.phase = "ended" /\ ~handled.response.ok) =>
        /\ handled.outcome.kind = "throw"
        /\ handled.outcome.error.name = "HackSeekAPIError"
        /\ handled.outcome.error.statusCode = handled.response.status

\* The call of retryWithBackoff has settled.
RetrySettled == retry.phase \in {"resolved", "rejected"}

\* C18: for maxRetries >= 1 (a whole number), at most one invocation of fn
\* is pending at any time, fn is invoked at most maxRetries times in all, a
\* resolved call carries the value of its last invocation, which is the one
\* successful invocation, a settled call invokes fn no further, and every
\* call settles given that each invocation of fn settles and each backoff
\* timer fires.
C18_RetryBoundedAndSettles ==
    /\ [](retry.phase # "none" /\ retry.maxRetries >= 1 =>
            /\ Cardinality(retry.pending) <= 1
            /\ Len(retry.outcomes) + Cardinality(retry.pending) <= retry.maxRetries
            /\ retry.phase = "resolved" =>
                  /\ retry.pending = {}
                  /\ \A k \in DOMAIN retry.outcomes :
                        retry.outcomes[k].ok <=> k = Len(retry.outcomes)
                  /\ retry.result =
                        Some(retry.outcomes[Len(retry.outcomes)].value))
    /\ [][RetrySettled => retry' = retry]_vars
    /\ <>RetrySettled

\* C18 witness: a call with maxRetries 3 resolved by its third invocation of
\* fn, after two backoff delays.
C18_Witness ==
    /\ retry.phase = "resolved" /\ retry.maxRetries = 3
    /\ Len(retry.outcomes) = 3 /\ Len(retry.delays) = 2

\* C19: when an invocation of fn has rejected with a HackSeekAPIError whose
\* code is VALIDATION_ERROR, AUTHENTICATION_ERROR or AUTHORIZATION_ERROR, the
\* call is rejected with that very error, that invocation is the last one,
\* nothing is pending, and no backoff delay was started for it (the delays
\* are those of the invocations before it).
C19_NonRetryableRejectsAtOnce ==
    retry.phase # "none" =>
        \A k \in DOMAIN retry.outcomes :
            LET o == retry.outcomes[k]
            IN  (/\ ~o.ok /\ o.error.name = "HackSeekAPIError"
                 /\ o.error.code \in {"VALIDATION_ERROR", "AUTHENTICATION_ERROR",
                                      "AUTHORIZATION_ERROR"})
                    => /\ retry.phase = "rejected"
                       /\ retry.thrown = Some(o.error)
                       /\ k = Len(retry.outcomes) /\ retry.pending = {}
                       /\ Len(retry.delays) = k - 1

\* C19 witness: the second of three allowed invocations rejected with an
\* AUTHORIZATION_ERROR and the call is rejected with it.
C19_Witness ==
    /\ retry.phase = "rejected" /\ retry.maxRetries = 3
    /\ Len(retry.outcomes) = 2
    /\ retry.outcomes[2].error.name = "HackSeekAPIError"
    /\ retry.outcomes[2].error.code = "AUTHORIZATION_ERROR"
    /\ retry.thrown = Some(retry.outcomes[2].error)

\* C20 as claimed: a rejected call of apiRequest is rejected with a
\* TimeoutError, a HackSeekAPIError or a NetworkError, and with a
\* TimeoutError exactly when the timer aborted the request before fetch
\* resolved.
C20_RejectionClasses ==
    request.phase = "rejected" =>
        /\ request.error.name \in {"TimeoutError", "HackSeekAPIError", "NetworkError"}
        /\ request.error.name = "TimeoutError" <=> request.aborted

\* C21: a burst of edits of the search text, each less than 500 ms after
\* the one before, leads to one listing request at most: one timer at most
\* is pending, it is due 500 ms after the last edit and holds the final
\* text; an edit issues no request; the callback runs 500 ms after the
\* last edit, leaves no timer pending and issues one request at most,
\* for page 1 and with the final text as q.
C21_DebouncedSearch ==
    /\ [](/\ Cardinality(listing.timers) <= 1
          /\ \A t \in listing.timers :
                /\ t.due = listing.edited + DebounceMs
                /\ t.searchQuery = listing.searchQuery)
    /\ [][\A text \in SearchTexts :
              setSearchQuery(text) => listing'.issued = listing.issued]_vars
    /\ [][\A t \in listing.timers :
              SearchTimerFires(t) =>
                  /\ listing.clock = listing.edited + DebounceMs
                  /\ listing'.timers = {}
                  /\ Len(listing'.issued) <= Len(listing.issued) + 1
                  /\ Len(listing'.issued) > Len(listing.issued) =>
                        LET call == listing'.issued[Len(listing'.issued)]
                        IN  /\ call.newFilters.q = listing.searchQuery
                            /\ call.page = 1
                            /\ IF listing.searchQuery = ""
                               THEN "q" \notin DOMAIN call.params.filters
                               ELSE call.params.filters.q = listing.searchQuery]_vars

\* A burst of two edits at least has ended: its timer ran 500 ms after the
\* last edit and the request it issued has the final text.
C21_Witness ==
    /\ listing.timers = {}
    /\ Len(listing.burst) >= 2
    /\ listing.burst[1] # listing.burst[Len(listing.burst)]
    /\ listing.clock = listing.edited + DebounceMs
    /\ listing.issued # <<>>
    /\ "q" \in DOMAIN listing.issued[Len(listing.issued)].params.filters
    /\ listing.issued[Len(listing.issued)].params.filters.q =
          listing.burst[Len(listing.burst)]

\* C22: when the timer set by an edit of the search text runs, every
\* filter other than q that was changed after that edit is still in the
\* filter state, with its value, after the callback, and is in the
\* filters of the request the callback issues.
C22_OtherChangeKept ==
    [][\A t \in listing.timers :
          (SearchTimerFires(t) /\ listing.burst # <<>>) =>
              \A k \in DOMAIN listing.filters \ {"q"} :
                  (k \notin DOMAIN t.filters \/ t.filters[k] # listing.filters[k])
                  => /\ k \in DOMAIN listing'.filters
                     /\ listing'.filters[k] = listing.filters[k]
                     /\ Len(listing'.issued) > Len(listing.issued) =>
                           LET call == listing'.issued[Len(listing'.issued)]
                           IN  /\ k \in DOMAIN call.newFilters
                               /\ call.newFilters[k] = listing.filters[k]]_vars

\* C23: after Clear All, with no user input since and every timer run,
\* the filter state is the empty object, the search text is empty, and
\* one request exactly, with no filters and for page 1, has been issued
\* since the clear.
C23_ClearAllSettles ==
    (~IsNull(listing.cleared) /\ listing.timers = {}) =>
        /\ listing.filters = EmptyFilters
        /\ listing.searchQuery = ""
        /\ Len(listing.issued) = Val(listing.cleared) + 1
        /\ listing.issued[Len(listing.issued)].newFilters = EmptyFilters
        /\ listing.issued[Len(listing.issued)].page = 1

\* The keys of a filter state that hold a filter: a truthy value for the
\* six keys fetchHackathons reads, a chosen option for date_range and sort.
HeldFilters(filters) ==
    {k \in DOMAIN filters :
        IF k \in {"date_range", "sort"} THEN filters[k] # ""
                                        ELSE Truthy(k, filters[k])}

\* C24: every request fetchHackathons issued has, as parameters, every
\* filter held in the filter state it was issued for (date_range and sort
\* included), the page number and the page size.
C24_RequestCarriesFilters ==
    \A i \in 1..Len(listing.issued) :
        LET call == listing.issued[i]
        IN  /\ call.params.page = call.page
            /\ call.params.size = listing.pagination.size
            /\ \A k \in HeldFilters(call.newFilters) :
                  /\ k \in DOMAIN call.params.filters
                  /\ call.params.filters[k] =
                        IF k = "is_online" THEN "true" ELSE call.newFilters[k]

\* C25: whatever the current date, navigateMonth('next') displays the
\* month after the one displayed and navigateMonth('prev') the month
\* before it, and next followed by prev displays the month it started from.
C25_NavigateMonthByOne ==
    [][/\ navigateMonth("next") =>
            /\ DisplayedMonth(calendar'.currentDate) =
                  DisplayedMonth(calendar.currentDate) + 1
            /\ DisplayedMonth(newDate(calendar'.currentDate, "prev")) =
                  DisplayedMonth(calendar.currentDate)
       /\ navigateMonth("prev") =>
            DisplayedMonth(calendar'.currentDate) =
                DisplayedMonth(calendar.currentDate) - 1]_vars

\* C26: whenever no health check is in flight, the page does not hold
\* both an error message and backend health data.
C26_ErrorOrHealthData ==
    (health.phase = "mounted" /\ health.inflight = {}) =>
        ~(~IsNull(health.error) /\ ~IsNull(health.backendHealth))
====
